---- MODULE Spec2Model ----
(***************************************************************************)
(* Device Link of the Homewerks smart fan client                           *)
(* (custom_components/homewerks_smart_fan/api.py, HomewerksSmartFanApi).   *)
(*                                                                         *)
(* The client runs on one asyncio event loop: coroutines interleave only   *)
(* at their await points.  Every action below is the code one coroutine    *)
(* runs between two suspensions.  `async with self._lock` on a free lock   *)
(* with no waiters does not suspend, so it is part of the running step.    *)
(***************************************************************************)
EXTENDS Integers, Sequences, FiniteSets, TLC

\* ------------------------------------------------------------------ bounds
NumCallers == 2     \* coroutines of the host platform that call the public API
MaxTasks == 2       \* background tasks (receive loops, reconnect tasks) alive at once
MaxWaits == 7       \* backoff waits counted (the delay is at its cap from the 7th on)
MaxFrames == 3      \* frames concatenated in one buffer
MaxBuf == 6         \* runs of bytes in a received buffer
ColorSteps == 104   \* targets of set_color_temperature: 2000, 2050, ..., 7200
InvertMargin == 100 \* temperatures inverted on each side of 2200..7000
NumHosts == 3       \* host suffixes of a discovery sweep (254 in discover_devices)
DISCOVERY_CONCURRENCY == 2  \* permits of the sweep's semaphore, scaled with
                            \* NumHosts (50 for 254 hosts in const.py)

\* ------------------------------------------------------- program constants
MIN_COLOR_TEMP_KELVIN == 2200
MAX_COLOR_TEMP_KELVIN == 7000
max_reconnect_delay == 60
max_timeouts_before_healthcheck == 3
VALUE_ON == "ON"
VALUE_OFF == "OFF"

Callers == 1..NumCallers
Tasks == (NumCallers + 1)..(NumCallers + MaxTasks)
Procs == Callers \cup Tasks

None == 0           \* Python None (task handle, reader, writer, lock owner)
Stream == 1         \* the reader/writer pair of the connection last opened
DoneTask == -1      \* a task handle whose task has finished (still truthy)

\* ---------------------------------------------------------------- payloads
\* A command/update payload is a JSON object over the four recognized keys.
\* Absent / AbsentN mark a key that is not in the object; EmptyN stands for
\* the empty string "" carried by a numeric key (the "query" value).
Absent == "absent"
AbsentN == -2
EmptyN == -1

Payload(f, l, b, c) ==
    [fan_power |-> f, light_power |-> l, percentage |-> b, colorTemperature |-> c]

NoPayload == Payload(Absent, Absent, AbsentN, AbsentN)

IsNumber(v) == v >= 0

\* the inversion left out: the device value is stored as it is
keep_color_temp(temp) == temp

\* _invert_color_temp
invert_color_temp(temp) == MIN_COLOR_TEMP_KELVIN + MAX_COLOR_TEMP_KELVIN - temp

\* the update without its percentage branch: a part of the object is applied
update_without_percentage(st, parsed) ==
    LET s1 == IF parsed.fan_power # Absent
              THEN [st EXCEPT !.fan_power = (parsed.fan_power = VALUE_ON)]
              ELSE st
        s2 == IF parsed.light_power # Absent
              THEN [s1 EXCEPT !.light_power = (parsed.light_power = VALUE_ON)]
              ELSE s1
        raised == parsed.colorTemperature = EmptyN
        s4 == IF parsed.colorTemperature # AbsentN /\ ~raised
              THEN [s2 EXCEPT !.color_temp = invert_color_temp(parsed.colorTemperature)]
              ELSE s2
    IN [state |-> s4, changed |-> (s4 # st), raised |-> raised]

\* the update without its test of the percentage against 100
update_accepting_sentinel(st, parsed) ==
    LET s1 == IF parsed.fan_power # Absent
              THEN [st EXCEPT !.fan_power = (parsed.fan_power = VALUE_ON)]
              ELSE st
        s2 == IF parsed.light_power # Absent
              THEN [s1 EXCEPT !.light_power = (parsed.light_power = VALUE_ON)]
              ELSE s1
        s3 == IF parsed.percentage # AbsentN /\ IsNumber(parsed.percentage)
              THEN [s2 EXCEPT !.brightness = parsed.percentage]
              ELSE s2
        raised == parsed.colorTemperature = EmptyN
        s4 == IF parsed.colorTemperature # AbsentN /\ ~raised
              THEN [s3 EXCEPT !.color_temp = invert_color_temp(parsed.colorTemperature)]
              ELSE s3
    IN [state |-> s4, changed |-> (s4 # st), raised |-> raised]

\* _update_state_from_response: the fields are applied in the order fan_power,
\* light_power, percentage, colorTemperature.  A colorTemperature that is not
\* a number makes the subtraction raise TypeError after the earlier fields
\* were stored and before any notification.
update_state_from_response(st, parsed) ==
    LET s1 == IF parsed.fan_power # Absent
              THEN [st EXCEPT !.fan_power = (parsed.fan_power = VALUE_ON)]
              ELSE st
        s2 == IF parsed.light_power # Absent
              THEN [s1 EXCEPT !.light_power = (parsed.light_power = VALUE_ON)]
              ELSE s1
        s3 == IF parsed.percentage # AbsentN /\ IsNumber(parsed.percentage)
                 /\ parsed.percentage <= 100
              THEN [s2 EXCEPT !.brightness = parsed.percentage]
              ELSE s2
        raised == parsed.colorTemperature = EmptyN
        s4 == IF parsed.colorTemperature # AbsentN /\ ~raised
              THEN [s3 EXCEPT !.color_temp = invert_color_temp(parsed.colorTemperature)]
              ELSE s3
    IN [state |-> s4, changed |-> (s4 # st), raised |-> raised]

\* the keepalive query of the receive loop and the query of request_state
KeepaliveQuery == Payload("", Absent, AbsentN, AbsentN)
StateQuery == Payload("", "", AbsentN, AbsentN)

\* The payloads the callers send and the frames the device pushes: a command
\* that sets every field; a report that switches both off and carries the
\* brightness sentinel 255, and an object whose colorTemperature is the
\* empty string.
SendPayloads == { Payload(VALUE_ON, VALUE_ON, 40, 2700) }

DevicePayloads == { Payload(VALUE_OFF, VALUE_OFF, 255, AbsentN),
                    Payload(Absent, Absent, AbsentN, EmptyN) }

\* -------------------------------------------------------------------- state
VARIABLES
    connected,          \* self._connected
    should_reconnect,   \* self._should_reconnect
    reconnect_delay,    \* self._reconnect_delay
    listener_task,      \* self._listener_task: None, a task, or DoneTask
    reconnect_task,     \* self._reconnect_task
    reader,             \* self._reader: None or Stream
    writer,             \* self._writer: None or Stream
    conn,               \* the connection behind Stream: "none", "open",
                        \* "lost" (peer gone), "closed" (closed by this side)
    lock,               \* owner of self._lock, or None
    waiters,            \* FIFO queue of coroutines waiting for self._lock
    state,              \* self._state (DeviceState)
    pc,                 \* where each coroutine is suspended
    op,                 \* the outermost function each coroutine runs
    arg,                \* the payload of a caller's send_command
    rd,                 \* the connection a suspended read or drain is on:
                        \* "cur" (the one behind Stream), or the status of
                        \* an earlier connection that Stream replaced
    cto,                \* consecutive_timeouts of each receive loop
    nwaits,             \* backoff waits begun since Connected last ended
    aw,                 \* the task a disconnect() is awaiting
    ret,                \* the call that returned in the last step and whether
                        \* it returned True (disconnect returns None: ok)
    cancelling,         \* tasks with a cancellation delivered but not yet run
    notified,           \* calls of _notify_state_change made by the last step
    wire,               \* the payload of the frame the last step wrote
    quiet,              \* disconnect() completed and no caller call since
    call,               \* a call of one of the client's synchronous
                        \* functions examined by itself: the function and
                        \* its arguments
    result,             \* what that call returned or raised
    sweep,              \* discover_devices: "idle" (not called), "gathering",
                        \* "returned" or "raised"
    probe,              \* where each _probe(host_suffix) task is
    semaphore,          \* the value of the sweep's asyncio.Semaphore
    sem_waiters,        \* the probes queued on the semaphore, first come first
    devices,            \* the list discover_devices returns: the host suffix
                        \* of each DiscoveredDevice appended
    net                 \* what is behind each host suffix of the subnet

clientvars == <<connected, should_reconnect, reconnect_delay, listener_task,
                reconnect_task, reader, writer, conn, lock, waiters, state, pc,
                op, arg, rd, cto, nwaits, aw, ret, cancelling, notified, wire,
                quiet>>

discvars == <<sweep, probe, semaphore, sem_waiters, devices, net>>

vars == <<clientvars, call, result, discvars>>

Hosts == 1..NumHosts

\* no sweep was started
DiscoveryIdle ==
    /\ sweep = "idle"
    /\ probe = [i \in Hosts |-> "new"]
    /\ semaphore = 0
    /\ sem_waiters = <<>>
    /\ devices = <<>>

NoCall == [f |-> "none"]

NoFrame == NoPayload
NoReturn == [of |-> "none", ok |-> FALSE]

\* __init__
ClientInit ==
    /\ connected = FALSE
    /\ should_reconnect = TRUE
    /\ reconnect_delay = 1
    /\ listener_task = None
    /\ reconnect_task = None
    /\ reader = None
    /\ writer = None
    /\ conn = "none"
    /\ lock = None
    /\ waiters = <<>>
    /\ state = [fan_power |-> FALSE, light_power |-> FALSE, brightness |-> 100,
                color_temp |-> 4000, volume |-> 50]
    /\ pc = [p \in Procs |-> IF p \in Callers THEN "idle" ELSE "free"]
    /\ op = [p \in Procs |-> "none"]
    /\ arg = [p \in Callers |-> NoPayload]
    /\ rd = [p \in Tasks |-> "none"]
    /\ cto = [p \in Tasks |-> 0]
    /\ nwaits = 0
    /\ aw = [p \in Callers |-> None]
    /\ ret = NoReturn
    /\ cancelling = {}
    /\ notified = 0
    /\ wire = NoFrame
    /\ quiet = FALSE

Init ==
    /\ ClientInit
    /\ call = NoCall
    /\ result = NoCall
    /\ DiscoveryIdle
    /\ net = [i \in Hosts |-> "silent"]

\* The state as one record, so that the code of a step can be composed from
\* the functions it calls.  ok = FALSE marks a step the bounds do not allow.
Now ==
    [connected |-> connected, should_reconnect |-> should_reconnect,
     reconnect_delay |-> reconnect_delay, listener_task |-> listener_task,
     reconnect_task |-> reconnect_task, reader |-> reader, writer |-> writer,
     conn |-> conn, lock |-> lock, waiters |-> waiters, state |-> state,
     pc |-> pc, op |-> op, arg |-> arg, rd |-> rd, cto |-> cto, nwaits |-> nwaits,
     aw |-> aw, ret |-> NoReturn, cancelling |-> cancelling, notified |-> 0,
     wire |-> NoFrame, quiet |-> quiet, ok |-> TRUE]

Becomes(g) ==
    /\ g.ok
    /\ connected' = g.connected
    /\ should_reconnect' = g.should_reconnect
    /\ reconnect_delay' = g.reconnect_delay
    /\ listener_task' = g.listener_task
    /\ reconnect_task' = g.reconnect_task
    /\ reader' = g.reader
    /\ writer' = g.writer
    /\ lock' = g.lock
    /\ waiters' = g.waiters
    /\ state' = g.state
    /\ conn' = g.conn
    /\ pc' = g.pc
    /\ op' = g.op
    /\ arg' = g.arg
    /\ rd' = g.rd
    /\ cto' = g.cto
    /\ nwaits' = g.nwaits
    /\ aw' = g.aw
    /\ ret' = g.ret
    /\ cancelling' = g.cancelling
    /\ notified' = g.notified
    /\ wire' = g.wire
    /\ quiet' = g.quiet
    /\ UNCHANGED <<call, result, discvars>>

\* ------------------------------------------------------- tasks and the lock
FreeTasks(g) == {t \in Tasks : g.pc[t] = "free"}

LowestFree(g) == CHOOSE t \in FreeTasks(g) : \A u \in FreeTasks(g) : t <= u

\* asyncio.create_task(self._listen_for_updates()), stored in _listener_task
create_listener_task(g) ==
    IF FreeTasks(g) = {} THEN [g EXCEPT !.ok = FALSE]
    ELSE LET t == LowestFree(g)
         IN [g EXCEPT !.pc[t] = "l_start", !.op[t] = "listen", !.listener_task = t]

\* asyncio.create_task(self._schedule_reconnect()), stored in _reconnect_task
create_reconnect_task(g) ==
    IF FreeTasks(g) = {} THEN [g EXCEPT !.ok = FALSE]
    ELSE LET t == LowestFree(g)
         IN [g EXCEPT !.pc[t] = "r_start", !.op[t] = "reconnect", !.reconnect_task = t]

Woken(at) == IF at = "d_wait_r" THEN "d_woke_r" ELSE "d_woke_l"

\* A background task ends: a handle that names it now names a finished task,
\* and a disconnect() awaiting it becomes runnable.
TaskEnds(g, t) ==
    [g EXCEPT
        !.pc = [q \in Procs |->
                   IF q = t THEN "free"
                   ELSE IF q \in Callers /\ g.aw[q] = t THEN Woken(g.pc[q])
                   ELSE g.pc[q]],
        !.aw = [q \in Callers |-> IF g.aw[q] = t THEN None ELSE g.aw[q]],
        !.op[t] = "none", !.rd[t] = "none", !.cto[t] = 0,
        !.listener_task = IF @ = t THEN DoneTask ELSE @,
        !.reconnect_task = IF @ = t THEN DoneTask ELSE @,
        !.cancelling = @ \ {t}]

\* A caller's call returns.
Returns(g, c, res) ==
    [g EXCEPT !.pc[c] = "idle", !.op[c] = "none", !.arg[c] = NoPayload,
              !.ret = [of |-> g.op[c], ok |-> res]]

Release(g) == [g EXCEPT !.lock = None]

\* Task.cancel(): a finished task ignores it
Cancel(g, t) == IF t \in Tasks THEN [g EXCEPT !.cancelling = @ \cup {t}] ELSE g

\* ---------------------------------------------------------- request_state
\* lines 364-366 and the return of line 363
RequestReturns(g, p, res) ==
    LET g1 == Release(g)
    IN IF g.op[p] = "reconnect" THEN TaskEnds(g1, p) ELSE Returns(g1, p, res)

\* a query that applies its own payload to the state as a command does
RequestLockedUpdating(g, p) ==
    IF g.writer = None THEN RequestReturns(g, p, FALSE)
    ELSE LET u == update_state_from_response(g.state, StateQuery)
         IN [g EXCEPT !.pc[p] = "q_drain",
                      !.wire = StateQuery,
                      !.state = u.state,
                      !.notified = IF u.changed THEN 1 ELSE 0]

\* lines 353-361, the lock held: writing through a writer of None raises
RequestLocked(g, p) ==
    IF g.writer = None THEN RequestReturns(g, p, FALSE)
    ELSE [g EXCEPT !.pc[p] = "q_drain",
                   !.wire = StateQuery]

RequestLock(g, p) ==
    IF g.lock = None /\ g.waiters = <<>>
    THEN RequestLocked([g EXCEPT !.lock = p], p)
    ELSE [g EXCEPT !.waiters = Append(@, p), !.pc[p] = "q_lock"]

\* ----------------------------------------------------------- _send_command
\* the except branch without its test of _should_reconnect
SendFailsAlways(g, c) ==
    LET g1 == [g EXCEPT !.connected = FALSE]
    IN Returns(Release(create_reconnect_task(g1)), c, FALSE)

\* lines 334-341
SendFails(g, c) ==
    LET g1 == [g EXCEPT !.connected = FALSE]
        g2 == IF g1.should_reconnect THEN create_reconnect_task(g1) ELSE g1
    IN Returns(Release(g2), c, FALSE)

\* lines 319-323, the lock held
SendLocked(g, c) ==
    IF g.writer = None THEN SendFails(g, c)
    ELSE [g EXCEPT !.pc[c] = "s_drain",
                   !.wire = g.arg[c]]

SendLock(g, c) ==
    IF g.lock = None /\ g.waiters = <<>>
    THEN SendLocked([g EXCEPT !.lock = c], c)
    ELSE [g EXCEPT !.waiters = Append(@, c), !.pc[c] = "s_lock"]

\* lines 326-332: after the settle wait, the optimistic update
SendSettles(g, c) ==
    LET u == update_state_from_response(g.state, g.arg[c])
        g1 == [g EXCEPT !.state = u.state]
    IN IF u.raised THEN SendFails(g1, c)
       ELSE Returns(Release([g1 EXCEPT !.notified = IF u.changed THEN 1 ELSE 0]),
                    c, TRUE)

\* ------------------------------------------------------------------ connect
\* _send_command going on to write whatever connect() returned
ConnectReturnsUnchecked(g, p, res) ==
    CASE g.op[p] = "connect" -> Returns(g, p, res)
      [] g.op[p] = "send" -> SendLock(g, p)
      [] g.op[p] = "request" ->
            IF res THEN RequestLock(g, p) ELSE Returns(g, p, FALSE)
      [] OTHER ->
            IF res THEN RequestLock(g, p)
            ELSE IF g.should_reconnect THEN TaskEnds(create_reconnect_task(g), p)
            ELSE TaskEnds(g, p)

\* a reconnect task that gives up after its first failed attempt
ConnectReturnsOnce(g, p, res) ==
    CASE g.op[p] = "connect" -> Returns(g, p, res)
      [] g.op[p] = "send" -> IF res THEN SendLock(g, p) ELSE Returns(g, p, FALSE)
      [] g.op[p] = "request" ->
            IF res THEN RequestLock(g, p) ELSE Returns(g, p, FALSE)
      [] OTHER -> IF res THEN RequestLock(g, p) ELSE TaskEnds(g, p)

\* what the caller of connect() does with its result: lines 315-317 of
\* _send_command, 349-351 of request_state, 219-225 of _schedule_reconnect
ConnectReturns(g, p, res) ==
    CASE g.op[p] = "connect" -> Returns(g, p, res)
      [] g.op[p] = "send" -> IF res THEN SendLock(g, p) ELSE Returns(g, p, FALSE)
      [] g.op[p] = "request" ->
            IF res THEN RequestLock(g, p) ELSE Returns(g, p, FALSE)
      [] OTHER ->      \* _schedule_reconnect, lines 219-225
            IF res THEN RequestLock(g, p)
            ELSE IF g.should_reconnect THEN TaskEnds(create_reconnect_task(g), p)
            ELSE TaskEnds(g, p)

\* connect() without its test of _connected
ConnectLockedAlways(g, p) == [g EXCEPT !.pc[p] = "c_open"]

\* lines 181-188, the lock held
ConnectLocked(g, p) ==
    IF g.connected THEN ConnectReturns(Release(g), p, TRUE)
    ELSE [g EXCEPT !.pc[p] = "c_open"]

\* line 180
ConnectLock(g, p) ==
    IF g.lock = None /\ g.waiters = <<>>
    THEN ConnectLocked([g EXCEPT !.lock = p], p)
    ELSE [g EXCEPT !.waiters = Append(@, p), !.pc[p] = "c_lock"]

\* lines 185-196: open_connection succeeded; reads and drains still pending
\* on the connection that Stream named until now stay on that connection
ConnectSucceeds(g, p) ==
    LET g1 == [g EXCEPT !.reader = Stream, !.writer = Stream, !.conn = "open",
                        !.rd = [t \in Tasks |->
                                   IF g.rd[t] = "cur" THEN g.conn ELSE g.rd[t]],
                        !.connected = TRUE, !.reconnect_delay = 1,
                        !.nwaits = 0]
    IN ConnectReturns(Release(create_listener_task(g1)), p, TRUE)

\* a failed connect() that retries by itself, as a failed send does
ConnectFailsRetrying(g, p) ==
    LET g1 == [g EXCEPT !.connected = FALSE]
        g2 == IF g1.should_reconnect THEN create_reconnect_task(g1) ELSE g1
    IN ConnectReturns(Release(g2), p, FALSE)

\* lines 197-200
ConnectFails(g, p) ==
    ConnectReturns(Release([g EXCEPT !.connected = FALSE]), p, FALSE)

\* ------------------------------------------------------- _schedule_reconnect
\* lines 215-217
next_reconnect_delay(d) ==
    IF d * 2 < max_reconnect_delay THEN d * 2 ELSE max_reconnect_delay

\* lines 204-212
ReconnectBegins(g, t) ==
    IF ~g.should_reconnect THEN TaskEnds(g, t)
    ELSE [g EXCEPT !.pc[t] = "r_sleep",
                   !.nwaits = IF @ < MaxWaits THEN @ + 1 ELSE @]

\* lines 215-219
ReconnectWakes(g, t) ==
    ConnectLock([g EXCEPT !.reconnect_delay = next_reconnect_delay(@)], t)

\* ------------------------------------------------------ _listen_for_updates
\* the loss handling without its test of _should_reconnect
ListenExitsAlways(g, t) ==
    LET g1 == IF ~g.connected THEN create_reconnect_task(g) ELSE g
    IN TaskEnds(g1, t)

\* lines 308-311
ListenExits(g, t) ==
    LET g1 == IF g.should_reconnect /\ ~g.connected
              THEN create_reconnect_task(g) ELSE g
    IN TaskEnds(g1, t)

\* lines 303-306, and the breaks of lines 273-274 and 298-299
ListenBreaks(g, t) == ListenExits([g EXCEPT !.connected = FALSE], t)

\* lines 265-270: the loop test and the next read.  StreamReader.read raises
\* RuntimeError when another coroutine is already waiting on the same reader.
ListenLoop(g, t) ==
    IF g.connected /\ g.reader # None
    THEN IF \E u \in Tasks \ {t} : g.pc[u] = "l_read" /\ g.rd[u] = "cur"
         THEN ListenBreaks(g, t)
         ELSE [g EXCEPT !.pc[t] = "l_read", !.rd[t] = "cur"]
    ELSE ListenExits(g, t)

\* lines 276-280: every parsed object is applied, each with its notification
RECURSIVE ApplyAll(_, _)
ApplyAll(r, frames) ==
    IF frames = <<>> \/ r.raised THEN r
    ELSE LET u == update_state_from_response(r.state, Head(frames))
         IN ApplyAll([state |-> u.state,
                      notes |-> r.notes + (IF u.changed /\ ~u.raised THEN 1 ELSE 0),
                      raised |-> u.raised],
                     Tail(frames))

ListenReceives(g, t, frames) ==
    LET r == ApplyAll([state |-> g.state, notes |-> 0, raised |-> FALSE], frames)
        g1 == [g EXCEPT !.cto[t] = 0, !.state = r.state, !.notified = r.notes]
    IN IF r.raised THEN ListenBreaks(g1, t) ELSE ListenLoop(g1, t)

\* a loop that sends its keepalive after every timeout
ListenTimesOutEager(g, t) ==
    LET g1 == [g EXCEPT !.cto[t] = @ + 1]
    IN IF g.writer = None THEN ListenBreaks(g1, t)
       ELSE [g1 EXCEPT !.pc[t] = "l_drain", !.rd[t] = "cur",
                       !.wire = KeepaliveQuery]

\* lines 282-300
ListenTimesOut(g, t) ==
    LET n == g.cto[t] + 1
        g1 == [g EXCEPT !.cto[t] = n]
    IN IF n >= max_timeouts_before_healthcheck
       THEN IF g.writer = None THEN ListenBreaks(g1, t)
            ELSE [g1 EXCEPT !.pc[t] = "l_drain", !.rd[t] = "cur",
                            !.wire = KeepaliveQuery]
       ELSE ListenLoop(g1, t)

\* line 295 and the continue of line 300
ListenKeptAlive(g, t) == ListenLoop([g EXCEPT !.cto[t] = 0], t)

\* --------------------------------------------------------------- disconnect
\* lines 254-255: the streams are dropped
DisconnectDrops(g) ==
    [g EXCEPT !.writer = None, !.reader = None, !.conn = "none",
              !.rd = [t \in Tasks |-> IF g.rd[t] = "cur" THEN g.conn ELSE g.rd[t]]]

\* lines 257-258
DisconnectEnds(g, c) ==
    LET g1 == Returns(Release([g EXCEPT !.connected = FALSE]), c, TRUE)
    IN [g1 EXCEPT !.quiet = \A q \in Callers : g1.pc[q] = "idle"]

\* lines 248-251
DisconnectCloses(g, c) ==
    IF g.writer # None
    THEN [g EXCEPT !.conn = "closed", !.pc[c] = "d_closing"]
    ELSE DisconnectEnds(g, c)

\* lines 246-248
DisconnectJoined(g, c) == DisconnectCloses([g EXCEPT !.listener_task = None], c)

\* a disconnect() that awaits the receive loop without cancelling it
DisconnectLockedAwaiting(g, c) ==
    IF g.listener_task = None THEN DisconnectCloses(g, c)
    ELSE IF g.listener_task = DoneTask THEN DisconnectJoined(g, c)
    ELSE [g EXCEPT !.aw[c] = g.listener_task, !.pc[c] = "d_wait_l"]

\* lines 240-243, the lock held
DisconnectLocked(g, c) ==
    IF g.listener_task = None THEN DisconnectCloses(g, c)
    ELSE IF g.listener_task = DoneTask THEN DisconnectJoined(g, c)
    ELSE [Cancel(g, g.listener_task) EXCEPT !.aw[c] = g.listener_task,
                                            !.pc[c] = "d_wait_l"]

\* line 239
DisconnectLock(g, c) ==
    IF g.lock = None /\ g.waiters = <<>>
    THEN DisconnectLocked([g EXCEPT !.lock = c], c)
    ELSE [g EXCEPT !.waiters = Append(@, c), !.pc[c] = "d_lock"]

\* line 237
DisconnectReaped(g, c) == DisconnectLock([g EXCEPT !.reconnect_task = None], c)

\* lines 229-234
DisconnectBegins(g, c) ==
    LET g1 == [g EXCEPT !.should_reconnect = FALSE]
    IN IF g1.reconnect_task = None THEN DisconnectLock(g1, c)
       ELSE IF g1.reconnect_task = DoneTask THEN DisconnectReaped(g1, c)
       ELSE [Cancel(g1, g1.reconnect_task) EXCEPT !.aw[c] = g1.reconnect_task,
                                                  !.pc[c] = "d_wait_r"]

\* ================================================================ actions
Runnable(p) == p \notin cancelling

\* status of the connection a task's read or drain is pending on
ConnOf(t) == IF rd[t] = "cur" THEN conn ELSE rd[t]

\* the buffers a read can return
DeviceReads == {<<d>> : d \in DevicePayloads}

Called(c, f) == [Now EXCEPT !.op[c] = f, !.quiet = FALSE]

\* a caller calls connect()
CallConnect(c) ==
    /\ pc[c] = "idle"
    /\ Becomes(ConnectLock(Called(c, "connect"), c))

\* a caller calls send_command(data) (or a derived setter): lines 313-319
CallSend(c, data) ==
    /\ pc[c] = "idle"
    /\ LET g == [Called(c, "send") EXCEPT !.arg[c] = data]
       IN Becomes(IF ~g.connected THEN ConnectLock(g, c) ELSE SendLock(g, c))

\* a caller calls request_state(): lines 349-353
CallRequest(c) ==
    /\ pc[c] = "idle"
    /\ LET g == Called(c, "request")
       IN Becomes(IF ~g.connected THEN ConnectLock(g, c) ELSE RequestLock(g, c))

\* a caller calls disconnect()
CallDisconnect(c) ==
    /\ pc[c] = "idle"
    /\ Becomes(DisconnectBegins([Now EXCEPT !.op[c] = "disconnect"], c))

\* the lock is handed to the coroutine at the head of the queue
LockGranted(p) ==
    /\ lock = None
    /\ waiters # <<>>
    /\ Head(waiters) = p
    /\ Runnable(p)
    /\ LET g == [Now EXCEPT !.lock = p, !.waiters = Tail(@)]
       IN Becomes(CASE pc[p] = "c_lock" -> ConnectLocked(g, p)
                    [] pc[p] = "s_lock" -> SendLocked(g, p)
                    [] pc[p] = "q_lock" -> RequestLocked(g, p)
                    [] OTHER -> DisconnectLocked(g, p))

\* open_connection returns a connection
ConnectOpened(p) ==
    /\ pc[p] = "c_open"
    /\ Runnable(p)
    /\ Becomes(ConnectSucceeds(Now, p))

\* open_connection raises OSError or times out
ConnectRefused(p) ==
    /\ pc[p] = "c_open"
    /\ Runnable(p)
    /\ Becomes(ConnectFails(Now, p))

\* drain of a command frame returns
SendDrained(c) ==
    /\ pc[c] = "s_drain"
    /\ conn \in {"open", "lost"}
    /\ Becomes([Now EXCEPT !.pc[c] = "s_settle"])

\* write or drain of a command frame raises
SendBroken(c) ==
    /\ pc[c] = "s_drain"
    /\ conn \in {"lost", "closed"}
    /\ Becomes(SendFails(Now, c))

\* the settle wait of a command is over
SendSettled(c) ==
    /\ pc[c] = "s_settle"
    /\ Becomes(SendSettles(Now, c))

\* drain of the state query returns
RequestDrained(p) ==
    /\ pc[p] = "q_drain"
    /\ Runnable(p)
    /\ conn \in {"open", "lost"}
    /\ Becomes(RequestReturns(Now, p, TRUE))

\* write or drain of the state query raises
RequestBroken(p) ==
    /\ pc[p] = "q_drain"
    /\ Runnable(p)
    /\ conn \in {"lost", "closed"}
    /\ Becomes(RequestReturns(Now, p, FALSE))

\* a reconnect task starts running
ReconnectStarts(t) ==
    /\ pc[t] = "r_start"
    /\ Runnable(t)
    /\ Becomes(ReconnectBegins(Now, t))

\* the backoff sleep of a reconnect task is over
ReconnectWoke(t) ==
    /\ pc[t] = "r_sleep"
    /\ Runnable(t)
    /\ Becomes(ReconnectWakes(Now, t))

\* a receive loop starts running
ListenStarts(t) ==
    /\ pc[t] = "l_start"
    /\ Runnable(t)
    /\ Becomes(ListenLoop(Now, t))

\* read returns a buffer of frames
ListenData(t) ==
    /\ pc[t] = "l_read"
    /\ Runnable(t)
    /\ ConnOf(t) = "open"
    /\ \E frames \in DeviceReads : Becomes(ListenReceives(Now, t, frames))

\* read returns b"": the peer, or this side, closed the connection
ListenEmpty(t) ==
    /\ pc[t] = "l_read"
    /\ Runnable(t)
    /\ ConnOf(t) \in {"lost", "closed"}
    /\ Becomes(ListenBreaks(Now, t))

\* read raises (connection reset)
ListenError(t) ==
    /\ pc[t] = "l_read"
    /\ Runnable(t)
    /\ ConnOf(t) = "lost"
    /\ Becomes(ListenBreaks(Now, t))

\* read times out after 60 s
ListenTimeout(t) ==
    /\ pc[t] = "l_read"
    /\ Runnable(t)
    /\ ConnOf(t) \in {"open", "lost"}
    /\ Becomes(ListenTimesOut(Now, t))

\* drain of the keepalive frame returns
KeepaliveDrained(t) ==
    /\ pc[t] = "l_drain"
    /\ Runnable(t)
    /\ ConnOf(t) \in {"open", "lost"}
    /\ Becomes(ListenKeptAlive(Now, t))

\* write or drain of the keepalive frame raises
KeepaliveBroken(t) ==
    /\ pc[t] = "l_drain"
    /\ Runnable(t)
    /\ ConnOf(t) \in {"lost", "closed"}
    /\ Becomes(ListenBreaks(Now, t))

\* disconnect() resumes after the cancelled reconnect task ended
DisconnectReapedReconnect(c) ==
    /\ pc[c] = "d_woke_r"
    /\ Becomes(DisconnectReaped(Now, c))

\* disconnect() resumes after the cancelled receive loop ended
DisconnectJoinedListener(c) ==
    /\ pc[c] = "d_woke_l"
    /\ Becomes(DisconnectJoined(Now, c))

\* wait_closed returns: lines 254-258
DisconnectClosed(c) ==
    /\ pc[c] = "d_closing"
    /\ Becomes(DisconnectEnds(DisconnectDrops(Now), c))

\* a cancelled task runs: CancelledError is raised at its await, the lock it
\* holds or waits for is given up, and the task ends (line 302 for the
\* receive loop)
TaskCancelled(t) ==
    /\ t \in cancelling
    /\ LET g == [Now EXCEPT !.lock = IF @ = t THEN None ELSE @,
                            !.waiters = SelectSeq(@, LAMBDA q : q # t)]
       IN Becomes(TaskEnds(g, t))

\* the peer closes or the network drops the connection behind Stream
ConnectionLost ==
    /\ conn = "open"
    /\ Becomes([Now EXCEPT !.conn = "lost"])

\* the same for an earlier connection a task is still reading
OldConnectionLost(t) ==
    /\ rd[t] = "open"
    /\ Becomes([Now EXCEPT !.rd[t] = "lost"])

Next ==
    \/ \E c \in Callers : CallConnect(c)
    \/ \E c \in Callers : \E data \in SendPayloads : CallSend(c, data)
    \/ \E c \in Callers : CallRequest(c)
    \/ \E c \in Callers : CallDisconnect(c)
    \/ \E p \in Procs : LockGranted(p)
    \/ \E p \in Procs : ConnectOpened(p)
    \/ \E p \in Procs : ConnectRefused(p)
    \/ \E c \in Callers : SendDrained(c)
    \/ \E c \in Callers : SendBroken(c)
    \/ \E c \in Callers : SendSettled(c)
    \/ \E p \in Procs : RequestDrained(p)
    \/ \E p \in Procs : RequestBroken(p)
    \/ \E t \in Tasks : ReconnectStarts(t)
    \/ \E t \in Tasks : ReconnectWoke(t)
    \/ \E t \in Tasks : ListenStarts(t)
    \/ \E t \in Tasks : ListenData(t)
    \/ \E t \in Tasks : ListenEmpty(t)
    \/ \E t \in Tasks : ListenError(t)
    \/ \E t \in Tasks : ListenTimeout(t)
    \/ \E t \in Tasks : KeepaliveDrained(t)
    \/ \E t \in Tasks : KeepaliveBroken(t)
    \/ \E c \in Callers : DisconnectReapedReconnect(c)
    \/ \E c \in Callers : DisconnectJoinedListener(c)
    \/ \E c \in Callers : DisconnectClosed(c)
    \/ \E t \in Tasks : TaskCancelled(t)
    \/ ConnectionLost
    \/ \E t \in Tasks : OldConnectionLost(t)

Spec == Init /\ [][Next]_vars

\* ------------------------------------------------ the link left to itself
\* The link when its callers only connect and never disconnect, send or
\* query: what the receive loop and the reconnect tasks do about a lost
\* connection.  Resumes(p) is the resumption of a suspended coroutine p: the
\* event loop runs every coroutine whose wait is over, and every wait of
\* these ends (the lock is released, open_connection returns or times out
\* after CONNECTION_TIMEOUT, a read returns or times out after 60 s, a
\* backoff sleep lasts at most 60 s).
Resumes(p) ==
    \/ LockGranted(p)
    \/ ConnectOpened(p)
    \/ ConnectRefused(p)
    \/ RequestDrained(p)
    \/ RequestBroken(p)
    \/ p \in Tasks /\ ReconnectStarts(p)
    \/ p \in Tasks /\ ReconnectWoke(p)
    \/ p \in Tasks /\ ListenStarts(p)
    \/ p \in Tasks /\ ListenData(p)
    \/ p \in Tasks /\ ListenEmpty(p)
    \/ p \in Tasks /\ ListenError(p)
    \/ p \in Tasks /\ ListenTimeout(p)
    \/ p \in Tasks /\ KeepaliveDrained(p)
    \/ p \in Tasks /\ KeepaliveBroken(p)

LossNext ==
    \/ \E c \in Callers : CallConnect(c)
    \/ \E p \in Procs : LockGranted(p)
    \/ \E p \in Procs : ConnectOpened(p)
    \/ \E p \in Procs : ConnectRefused(p)
    \/ \E p \in Procs : RequestDrained(p)
    \/ \E p \in Procs : RequestBroken(p)
    \/ \E t \in Tasks : ReconnectStarts(t)
    \/ \E t \in Tasks : ReconnectWoke(t)
    \/ \E t \in Tasks : ListenStarts(t)
    \/ \E t \in Tasks : ListenData(t)
    \/ \E t \in Tasks : ListenEmpty(t)
    \/ \E t \in Tasks : ListenError(t)
    \/ \E t \in Tasks : ListenTimeout(t)
    \/ \E t \in Tasks : KeepaliveDrained(t)
    \/ \E t \in Tasks : KeepaliveBroken(t)
    \/ ConnectionLost

FairLossSpec ==
    /\ Init
    /\ [][LossNext]_vars
    /\ \A p \in Procs : WF_vars(Resumes(p))

\* ------------------------------------------- disconnect() on a quiet link
\* The link with one caller that sends commands and one that disconnects,
\* the device pushing nothing and no read timing out: a receive loop stays
\* blocked in its read until the connection is lost or the loop is
\* cancelled.  Advances(p) is the resumption of a suspended coroutine p,
\* the delivery of a cancellation included: every wait of the code but the
\* read of the receive loop ends (the lock is released, open_connection
\* returns or times out, a backoff sleep, a drain and the 0.3 s settle wait
\* end, wait_closed returns, an awaited task that was cancelled ends); a
\* read ends when the connection is lost or closed.
Advances(p) ==
    \/ LockGranted(p)
    \/ ConnectOpened(p)
    \/ ConnectRefused(p)
    \/ RequestDrained(p)
    \/ RequestBroken(p)
    \/ p \in Tasks /\ ReconnectStarts(p)
    \/ p \in Tasks /\ ReconnectWoke(p)
    \/ p \in Tasks /\ ListenStarts(p)
    \/ p \in Tasks /\ ListenEmpty(p)
    \/ p \in Tasks /\ ListenError(p)
    \/ p \in Callers /\ SendDrained(p)
    \/ p \in Callers /\ SendBroken(p)
    \/ p \in Callers /\ SendSettled(p)
    \/ p \in Callers /\ DisconnectReapedReconnect(p)
    \/ p \in Callers /\ DisconnectJoinedListener(p)
    \/ p \in Callers /\ DisconnectClosed(p)
    \/ p \in Tasks /\ TaskCancelled(p)

DisconnectNext ==
    \/ \E d \in SendPayloads : CallSend(1, d)
    \/ CallDisconnect(NumCallers)
    \/ \E p \in Procs : LockGranted(p)
    \/ \E p \in Procs : ConnectOpened(p)
    \/ \E p \in Procs : ConnectRefused(p)
    \/ \E c \in Callers : SendDrained(c)
    \/ \E c \in Callers : SendBroken(c)
    \/ \E c \in Callers : SendSettled(c)
    \/ \E p \in Procs : RequestDrained(p)
    \/ \E p \in Procs : RequestBroken(p)
    \/ \E t \in Tasks : ReconnectStarts(t)
    \/ \E t \in Tasks : ReconnectWoke(t)
    \/ \E t \in Tasks : ListenStarts(t)
    \/ \E t \in Tasks : ListenEmpty(t)
    \/ \E t \in Tasks : ListenError(t)
    \/ \E c \in Callers : DisconnectReapedReconnect(c)
    \/ \E c \in Callers : DisconnectJoinedListener(c)
    \/ \E c \in Callers : DisconnectClosed(c)
    \/ \E t \in Tasks : TaskCancelled(t)
    \/ ConnectionLost
    \/ \E t \in Tasks : OldConnectionLost(t)

FairDisconnectSpec ==
    /\ Init
    /\ [][DisconnectNext]_vars
    /\ \A p \in Procs : WF_vars(Advances(p))

\* ============================================ the synchronous functions
\* The functions of the client that run without suspending (for the volume
\* operations: the part after the UPnP response), each examined by itself:
\* a call is drawn, the function applied, and what it returned or raised is
\* kept in result.

\* the loop of _notify_state_change from position i on (lines 70-74): the
\* callback is called inside try; an Exception it raises is caught and
\* logged, and the loop goes on with the next one
RECURSIVE notify_from(_, _, _)
notify_from(callbacks, i, invoked) ==
    IF i > Len(callbacks) THEN [invoked |-> invoked, raised |-> FALSE]
    ELSE LET called == Append(invoked, i)
         IN IF callbacks[i] = "raises"
            THEN notify_from(callbacks, i + 1, called)
            ELSE notify_from(callbacks, i + 1, called)

\* a notification that stops at the first listener that raises
notify_until_raise(callbacks) ==
    LET bad == {i \in 1..Len(callbacks) : callbacks[i] = "raises"}
        stop == IF bad = {} THEN Len(callbacks)
                ELSE CHOOSE i \in bad : \A j \in bad : i <= j
    IN [invoked |-> [i \in 1..stop |-> i], raised |-> bad # {}]

\* _notify_state_change: the callbacks are called in list order; one that
\* raises an Exception is logged and the loop goes on.  The value is the
\* sequence of the positions called and whether an error left the function.
notify_state_change(callbacks) == notify_from(callbacks, 1, <<>>)

\* the stored states, the update objects and the listener lists the calls
\* are drawn from; a listener either returns or raises an Exception
UpdateStates ==
    { [fan_power |-> FALSE, light_power |-> FALSE, brightness |-> 100,
       color_temp |-> 4000, volume |-> 50],
      [fan_power |-> TRUE, light_power |-> TRUE, brightness |-> 40,
       color_temp |-> 6500, volume |-> 50] }

UpdatePayloads ==
    { Payload(f, l, b, c) :
        f \in {Absent, VALUE_ON, VALUE_OFF}, l \in {Absent, VALUE_ON},
        b \in {AbsentN, EmptyN, 0, 40, 100, 101, 255, 256},
        c \in {AbsentN, EmptyN, 2700, 5200, 100} }

ListenerLists ==
    { <<>>, <<"returns">>, <<"raises">>, <<"returns", "returns">>,
      <<"raises", "returns">>, <<"returns", "raises">> }

UpdateCalls ==
    { [f |-> "update", st |-> st, parsed |-> d, callbacks |-> cbs] :
        st \in UpdateStates, d \in UpdatePayloads, cbs \in ListenerLists }

\* _update_state_from_response(parsed, notify=True) with its call of
\* _notify_state_change (lines 175-176)
UpdateApplied ==
    /\ call.f = "update"
    /\ result = NoCall
    /\ LET u == update_state_from_response(call.st, call.parsed)
           n == IF u.changed /\ ~u.raised
                THEN notify_state_change(call.callbacks)
                ELSE [invoked |-> <<>>, raised |-> FALSE]
       IN result' = [f |-> "update", state |-> u.state,
                     raised |-> (u.raised \/ n.raised), invoked |-> n.invoked]
    /\ UNCHANGED <<clientvars, call, discvars>>

\* get_volume after the UPnP response arrived (lines 440-451): heard is the
\* number in the CurrentVolume element, or AbsentN for no response, no
\* element or text that int() rejects
VolumeCalls ==
    { [f |-> "get_volume", st |-> st, volume |-> v, callbacks |-> cbs] :
        st \in UpdateStates,
        v \in {AbsentN, 0, 30, 50, 100, 150}, cbs \in {<<>>, <<"raises", "returns">>} }

\* set_volume(volume) and what _upnp_action gave back: "failed" for None
\* (any error of the POST is caught at lines 429-431), "empty" for an empty
\* body, "text" for any other body
SetVolumeCalls ==
    { [f |-> "set_volume", st |-> st, volume |-> v, response |-> r,
       callbacks |-> cbs] :
        st \in UpdateStates, v \in {-5, 0, 30, 50, 100, 150},
        r \in {"failed", "empty", "text"},
        cbs \in {<<>>, <<"raises", "returns">>} }

Max(a, b) == IF a >= b THEN a ELSE b
Min(a, b) == IF a <= b THEN a ELSE b

\* the state and the notification of a volume that was heard or set
store_volume(st, volume, callbacks) ==
    IF st.volume # volume
    THEN [state |-> [st EXCEPT !.volume = volume],
          invoked |-> notify_state_change(callbacks).invoked,
          raised |-> notify_state_change(callbacks).raised]
    ELSE [state |-> st, invoked |-> <<>>, raised |-> FALSE]

\* get_volume, lines 440-451
VolumeGot ==
    /\ call.f = "get_volume"
    /\ result = NoCall
    /\ LET r == IF call.volume = AbsentN
                THEN [state |-> call.st, invoked |-> <<>>, raised |-> FALSE]
                ELSE store_volume(call.st, call.volume, call.callbacks)
       IN result' = [f |-> "get_volume", state |-> r.state,
                     raised |-> r.raised, invoked |-> r.invoked]
    /\ UNCHANGED <<clientvars, call, discvars>>

\* a set_volume that sends and stores the volume as it was given
set_volume_unclamped(st, volume, response, callbacks) ==
    LET r == IF response \in {"failed", "empty"}
             THEN [state |-> st, invoked |-> <<>>, raised |-> FALSE]
             ELSE store_volume(st, volume, callbacks)
    IN [sent |-> volume, returned |-> (response = "text"), state |-> r.state,
        invoked |-> r.invoked, raised |-> r.raised]

\* set_volume, lines 453-466: the volume is clamped to 0..100 and sent; a
\* response that is None or empty returns False, any other stores the
\* clamped volume, notifies on a change and returns True
set_volume(st, volume, response, callbacks) ==
    LET v == Max(0, Min(100, volume))
        r == IF response \in {"failed", "empty"}
             THEN [state |-> st, invoked |-> <<>>, raised |-> FALSE]
             ELSE store_volume(st, v, callbacks)
    IN [sent |-> v, returned |-> (response = "text"), state |-> r.state,
        invoked |-> r.invoked, raised |-> r.raised]

VolumeSet ==
    /\ call.f = "set_volume"
    /\ result = NoCall
    /\ LET r == set_volume(call.st, call.volume, call.response, call.callbacks)
       IN result' = [f |-> "set_volume", sent |-> r.sent, returned |-> r.returned,
                     state |-> r.state, raised |-> r.raised, invoked |-> r.invoked]
    /\ UNCHANGED <<clientvars, call, discvars>>

\* ----------------------------------------------------------- the frame codec
\* A buffer is a sequence of runs of bytes.  A run is the 16 bytes in front
\* of a payload ("hdr": the magic, the length and the padding; the byte
\* 0x96 of the magic is not UTF-8), the prefix MCU+PAS+ ("pre"), the suffix
\* & ("suf"), the JSON text of an object ("json"), text that is not JSON
\* ("junk"), bytes that are not UTF-8 ("bad8"), or JSON text nested deeper
\* than the interpreter's recursion limit ("deep"; 1000 brackets fit in one
\* read of 4096 bytes), on which json.loads raises RecursionError.
Run(k, obj) == [k |-> k, obj |-> obj]
Hdr == Run("hdr", NoPayload)
Pre == Run("pre", NoPayload)
Suf == Run("suf", NoPayload)
Json(obj) == Run("json", obj)

\* _build_frame: header, length and padding, then prefix, json.dumps(data)
\* and suffix.  No length of a command payload has the byte of the suffix.
build_frame(data) == <<Hdr, Pre, Json(data), Suf>>

\* data.find(run, from): the first position at or after from, 0 for -1
Find(data, k, from) ==
    LET at == {i \in from..Len(data) : data[i].k = k}
    IN IF at = {} THEN 0 ELSE CHOOSE i \in at : \A j \in at : i <= j

\* lines 119-124: decode('utf-8'), strip and json.loads of one slice
DecodeSlice(slice) ==
    IF \E i \in 1..Len(slice) : slice[i].k \in {"hdr", "bad8"}
    THEN "UnicodeDecodeError"
    ELSE IF slice = <<>> THEN "JSONDecodeError"
    ELSE IF slice[1].k = "deep" THEN "RecursionError"
    ELSE IF Len(slice) = 1 /\ slice[1].k = "json" THEN "parsed"
    ELSE "JSONDecodeError"

\* the loop of _parse_response, lines 109-126
RECURSIVE parse_from(_, _, _)
parse_from(data, search_start, results) ==
    LET pre == Find(data, "pre", search_start)
        start == pre + 1
        end == Find(data, "suf", start)
        slice == SubSeq(data, start, end - 1)
        how == DecodeSlice(slice)
    IN IF search_start > Len(data) \/ pre = 0 \/ end = 0
       THEN [objs |-> results, raised |-> FALSE]
       ELSE IF how = "RecursionError" THEN [objs |-> results, raised |-> TRUE]
       ELSE parse_from(data, end + 1,
                       IF how = "parsed" THEN Append(results, slice[1].obj)
                       ELSE results)

\* a parse that returns after the first object
parse_first_only(data) ==
    LET r == parse_from(data, 1, <<>>)
    IN [objs |-> IF r.objs = <<>> THEN <<>> ELSE <<r.objs[1]>>, raised |-> r.raised]

\* _parse_response
parse_response(data) == parse_from(data, 1, <<>>)

FramePayloads == { Payload(VALUE_ON, Absent, AbsentN, AbsentN),
                   Payload(Absent, Absent, 40, 2700) }

RECURSIVE SeqsUpTo(_, _)
SeqsUpTo(S, n) ==
    IF n = 0 THEN {<<>>}
    ELSE LET shorter == SeqsUpTo(S, n - 1)
         IN shorter \cup {Append(q, x) : q \in shorter, x \in S}

RECURSIVE Concat(_)
Concat(frames) ==
    IF frames = <<>> THEN <<>> ELSE Head(frames) \o Concat(Tail(frames))

\* command payloads framed and concatenated, and buffers of any runs
FrameCalls ==
    { [f |-> "frames", sent |-> fs] : fs \in SeqsUpTo(FramePayloads, MaxFrames) }

BufferRuns ==
    { Pre, Suf, Json(Payload(VALUE_ON, Absent, AbsentN, AbsentN)),
      Run("junk", NoPayload), Run("bad8", NoPayload), Run("deep", NoPayload) }

BufferCalls ==
    { [f |-> "parse", data |-> b] : b \in SeqsUpTo(BufferRuns, MaxBuf) }

\* _parse_response of the frames _build_frame made, one after the other
FramesParsed ==
    /\ call.f = "frames"
    /\ result = NoCall
    /\ LET data == Concat([i \in 1..Len(call.sent) |-> build_frame(call.sent[i])])
           r == parse_response(data)
       IN result' = [f |-> "frames", data |-> data, objs |-> r.objs,
                     raised |-> r.raised]
    /\ UNCHANGED <<clientvars, call, discvars>>

\* _parse_response of a received buffer
BufferParsed ==
    /\ call.f = "parse"
    /\ result = NoCall
    /\ LET r == parse_response(call.data)
       IN result' = [f |-> "parse", data |-> call.data, objs |-> r.objs,
                     raised |-> r.raised]
    /\ UNCHANGED <<clientvars, call, discvars>>

\* ------------------------------------------------------ set_color_temperature
\* The four device-scale values the firmware accepts, in listed order.
\* const.py of src/ does not define the name that api.py imports; the
\* values and their order are the specification's.
SUPPORTED_DEVICE_COLOR_TEMPS == <<7000, 5500, 2700, 2200>>

Abs(x) == IF x < 0 THEN -x ELSE x

\* a snap that keeps the last of the nearest values
snap_last_nearest(device_temp) ==
    LET T == SUPPORTED_DEVICE_COLOR_TEMPS
        near == {i \in 1..Len(T) :
                   \A j \in 1..Len(T) : Abs(T[i] - device_temp) <= Abs(T[j] - device_temp)}
    IN T[CHOOSE i \in near : \A j \in near : j <= i]

\* _snap_device_color_temp: min(..., key=abs(t - device_temp)) gives the
\* first element of the list with the least key
snap_device_color_temp(device_temp) ==
    LET T == SUPPORTED_DEVICE_COLOR_TEMPS
        near == {i \in 1..Len(T) :
                   \A j \in 1..Len(T) : Abs(T[i] - device_temp) <= Abs(T[j] - device_temp)}
    IN T[CHOOSE i \in near : \A j \in near : i <= j]

\* set_color_temperature, lines 383-387: the command it hands to
\* _send_command
color_temperature_command(temp_kelvin) ==
    LET clamped == Max(MIN_COLOR_TEMP_KELVIN, Min(MAX_COLOR_TEMP_KELVIN, temp_kelvin))
        device_temp == snap_device_color_temp(invert_color_temp(clamped))
    IN Payload(Absent, Absent, AbsentN, device_temp)

ColorCalls ==
    { [f |-> "set_color_temperature", k |-> 2000 + 50 * i] : i \in 0..ColorSteps }

ColorTemperatureSet ==
    /\ call.f = "set_color_temperature"
    /\ result = NoCall
    /\ result' = [f |-> "set_color_temperature",
                  command |-> color_temperature_command(call.k)]
    /\ UNCHANGED <<clientvars, call, discvars>>

\* _invert_color_temp applied once and applied again to its own value
InvertCalls ==
    { [f |-> "invert", x |-> x] :
        x \in (MIN_COLOR_TEMP_KELVIN - InvertMargin)..(MAX_COLOR_TEMP_KELVIN + InvertMargin) }

ColorTempInverted ==
    /\ call.f = "invert"
    /\ result = NoCall
    /\ result' = [f |-> "invert", once |-> invert_color_temp(call.x),
                  twice |-> invert_color_temp(invert_color_temp(call.x))]
    /\ UNCHANGED <<clientvars, call, discvars>>

\* ---------------------------------------------- send_command after its wait
\* commands that carry the empty string, the "query" value, for one key
QueryPayloads ==
    { Payload("", Absent, AbsentN, AbsentN), Payload(Absent, "", AbsentN, AbsentN),
      Payload(Absent, Absent, EmptyN, AbsentN), Payload(Absent, Absent, AbsentN, EmptyN) }

SendCalls ==
    { [f |-> "send_command", st |-> st, data |-> d] :
        st \in UpdateStates, d \in QueryPayloads \cup SendPayloads }

\* a Connected link with auto-reconnect enabled whose first caller has
\* written and drained the frame of send_command(data) and holds the lock in
\* the settle wait (line 326), the receive loop blocked in its read
Settling(st, data) ==
    LET c == CHOOSE q \in Callers : \A r \in Callers : q <= r
        t == CHOOSE u \in Tasks : \A r \in Tasks : u <= r
    IN [Now EXCEPT !.connected = TRUE, !.reader = Stream, !.writer = Stream,
                   !.conn = "open", !.listener_task = t,
                   !.pc[t] = "l_read", !.op[t] = "listen", !.rd[t] = "cur",
                   !.lock = c, !.state = st,
                   !.pc[c] = "s_settle", !.op[c] = "send", !.arg[c] = data]

\* _send_command from the end of the settle wait on: lines 329-341
SendCompleted ==
    /\ call.f = "send_command"
    /\ result = NoCall
    /\ LET c == CHOOSE q \in Callers : \A r \in Callers : q <= r
           g == SendSettles(Settling(call.st, call.data), c)
       IN result' = [f |-> "send_command", returned |-> g.ret.ok,
                     connected |-> g.connected, state |-> g.state,
                     notified |-> g.notified,
                     reconnect_task |-> g.reconnect_task]
    /\ UNCHANGED <<clientvars, call, discvars>>

\* ------------------------------------------------- frames split over reads
\* The bytes of the frames the device sends, delivered by TCP in two reads.
\* The stream is cut after run `cut`, or, with inside, in the middle of run
\* `cut`: a piece of the prefix or of the JSON text is text that is neither
\* (a "junk" run), a piece of the header is bytes of the header; the suffix
\* is one byte and cannot be cut.
Piece(run) == IF run.k = "hdr" THEN Hdr ELSE Run("junk", NoPayload)

SplitReads(data, cut, inside) ==
    IF inside
    THEN << Append(SubSeq(data, 1, cut - 1), Piece(data[cut])),
            <<Piece(data[cut])>> \o SubSeq(data, cut + 1, Len(data)) >>
    ELSE << SubSeq(data, 1, cut), SubSeq(data, cut + 1, Len(data)) >>

\* one or two frames, cut at any run (a frame is four runs, the last of
\* them the suffix)
StreamCalls ==
    { c \in { [f |-> "stream", st |-> st, sent |-> fs, cut |-> n, inside |-> b] :
                st \in UpdateStates, fs \in SeqsUpTo(FramePayloads, 2) \ {<<>>},
                n \in 1..(4 * 2), b \in BOOLEAN } :
        /\ c.cut <= 4 * Len(c.sent)
        /\ c.inside => c.cut % 4 # 0 }

\* the body of the receive loop for the reads one after the other (lines
\* 265-280): each read that is not empty is decoded by itself and every
\* object decoded from it is applied; nothing of a read is kept for the next
RECURSIVE reads_received(_, _)
reads_received(st, reads) ==
    IF reads = <<>> THEN [applied |-> <<>>, state |-> st, notes |-> 0]
    ELSE LET p == parse_response(Head(reads))
             r == ApplyAll([state |-> st, notes |-> 0, raised |-> FALSE], p.objs)
             rest == reads_received(r.state, Tail(reads))
         IN [applied |-> p.objs \o rest.applied, state |-> rest.state,
             notes |-> r.notes + rest.notes]

\* the receive loop reads the stream of the frames sent in two reads, and
\* for comparison in one
StreamReceived ==
    /\ call.f = "stream"
    /\ result = NoCall
    /\ LET data == Concat([i \in 1..Len(call.sent) |-> build_frame(call.sent[i])])
           reads == SplitReads(data, call.cut, call.inside)
           two == reads_received(call.st, SelectSeq(reads, LAMBDA b : b # <<>>))
           one == reads_received(call.st, <<data>>)
       IN result' = [f |-> "stream", reads |-> reads, applied |-> two.applied,
                     state |-> two.state, notes |-> two.notes,
                     whole_applied |-> one.applied, whole_state |-> one.state]
    /\ UNCHANGED <<clientvars, call, discvars>>

\* --------------------------------------- a report during the settle wait
\* what the device reports while a command waits: a refusal that switches
\* both off (with the brightness sentinel), and a report of other values
\* for the fan, the brightness and the colour temperature
ReportPayloads == { Payload(VALUE_OFF, VALUE_OFF, 255, AbsentN),
                    Payload(VALUE_OFF, Absent, 60, 5500) }

SettleCalls ==
    { [f |-> "settle", st |-> st, data |-> d, frame |-> r] :
        st \in UpdateStates,
        d \in SendPayloads \cup {Payload(VALUE_ON, Absent, AbsentN, AbsentN)},
        r \in ReportPayloads }

\* send_command(data) in its settle wait (line 326); the receive loop reads
\* the frame of the device and applies it (lines 276-280); then the wait
\* ends and the send goes on (lines 329-332)
ReportedWhileSettling ==
    /\ call.f = "settle"
    /\ result = NoCall
    /\ LET c == CHOOSE q \in Callers : \A r \in Callers : q <= r
           g0 == Settling(call.st, call.data)
           g1 == ListenReceives(g0, g0.listener_task, <<call.frame>>)
           g2 == SendSettles([g1 EXCEPT !.notified = 0], c)
       IN result' = [f |-> "settle", reported |-> g1.state,
                     reported_notified |-> g1.notified,
                     returned |-> g2.ret.ok, state |-> g2.state,
                     notified |-> g2.notified]
    /\ UNCHANGED <<clientvars, call, discvars>>

NotifyCalls == { [f |-> "notify", callbacks |-> cbs] : cbs \in ListenerLists }

\* _notify_state_change, lines 68-74
Notified ==
    /\ call.f = "notify"
    /\ result = NoCall
    /\ LET n == notify_state_change(call.callbacks)
       IN result' = [f |-> "notify", raised |-> n.raised, invoked |-> n.invoked]
    /\ UNCHANGED <<clientvars, call, discvars>>

FunctionCalls ==
    UpdateCalls \cup VolumeCalls \cup SetVolumeCalls \cup NotifyCalls \cup FrameCalls \cup BufferCalls
        \cup ColorCalls \cup InvertCalls \cup SendCalls \cup StreamCalls
        \cup SettleCalls

FunctionInit ==
    /\ ClientInit
    /\ call \in FunctionCalls
    /\ result = NoCall
    /\ DiscoveryIdle
    /\ net = [i \in Hosts |-> "silent"]

FunctionNext ==
    \/ UpdateApplied
    \/ VolumeGot
    \/ VolumeSet
    \/ Notified
    \/ FramesParsed
    \/ BufferParsed
    \/ ColorTemperatureSet
    \/ ColorTempInverted
    \/ SendCompleted
    \/ StreamReceived
    \/ ReportedWhileSettling

FunctionSpec == FunctionInit /\ [][FunctionNext]_vars

\* ============================================================== discovery
\* discover_devices(prefix) with a prefix given: one _probe task per host
\* suffix, all gathered.  What is behind a suffix decides how its network
\* calls end:
\*   "silent"       the description port accepts no connection
\*   "no_http"      the port is open, the GET fails or its status is not 200
\*   "undecodable"  the body is not text in its charset: response.text()
\*                  raises UnicodeDecodeError, which line 54 does not catch
\*   "malformed"    the text is no XML or has no device element
\*   "other_vendor" a description of another manufacturer
\*   "no_control"   the expected manufacturer, port 8899 closed
\*   "fan"          the expected manufacturer, port 8899 open
HostKinds ==
    {"silent", "no_http", "undecodable", "malformed", "other_vendor",
     "no_control", "fan"}

\* the probes that hold a permit of the semaphore, and those of them that are
\* in a network call
Holding == {i \in Hosts : probe[i] \in {"sem_woken", "check", "fetch", "port"}}
InFlight == {i \in Hosts : probe[i] \in {"check", "fetch", "port"}}

Started == \A i \in Hosts : probe[i] # "new"

\* a probe that ends without giving its permit back
LeavesHolding(i, how) ==
    /\ probe' = [probe EXCEPT ![i] = how]
    /\ UNCHANGED <<semaphore, sem_waiters>>

\* the end of `async with semaphore` (Semaphore.release), by return or by an
\* exception: the permit goes to the first waiter, or back to the value
Leaves(i, how) ==
    IF sem_waiters # <<>>
    THEN /\ probe' = [probe EXCEPT ![i] = how, ![Head(sem_waiters)] = "sem_woken"]
         /\ sem_waiters' = Tail(sem_waiters)
         /\ semaphore' = semaphore
    ELSE /\ probe' = [probe EXCEPT ![i] = how]
         /\ semaphore' = semaphore + 1
         /\ sem_waiters' = sem_waiters

\* lines 101-119: the semaphore, the empty list and the tasks are made
DiscoverCalled ==
    /\ sweep = "idle"
    /\ sweep' = "gathering"
    /\ semaphore' = DISCOVERY_CONCURRENCY
    /\ sem_waiters' = <<>>
    /\ devices' = <<>>
    /\ probe' = [i \in Hosts |-> "new"]
    /\ UNCHANGED <<clientvars, call, result, net>>

\* a probe task runs up to its first suspension (lines 105-108): the tasks
\* start in the order gather made them; Semaphore.acquire takes a permit
\* without suspending when there is one and nobody waits
ProbeStarts(i) ==
    /\ sweep # "idle"
    /\ probe[i] = "new"
    /\ \A j \in Hosts : j < i => probe[j] # "new"
    /\ IF semaphore > 0 /\ sem_waiters = <<>>
       THEN /\ semaphore' = semaphore - 1
            /\ probe' = [probe EXCEPT ![i] = "check"]
            /\ sem_waiters' = sem_waiters
       ELSE /\ sem_waiters' = Append(sem_waiters, i)
            /\ probe' = [probe EXCEPT ![i] = "sem_wait"]
            /\ semaphore' = semaphore
    /\ UNCHANGED <<clientvars, call, result, sweep, devices, net>>

\* a probe that was handed a permit runs on into its port check
ProbeResumes(i) ==
    /\ probe[i] = "sem_woken"
    /\ probe' = [probe EXCEPT ![i] = "check"]
    /\ UNCHANGED <<clientvars, call, result, sweep, semaphore, sem_waiters,
                   devices, net>>

\* _check_port(host, UPNP_DESCRIPTION_PORT) is over (lines 107-109); the
\* results of network calls arrive after every task has started
PortChecked(i) ==
    /\ probe[i] = "check"
    /\ Started
    /\ IF net[i] = "silent"
       THEN Leaves(i, "done")
       ELSE /\ probe' = [probe EXCEPT ![i] = "fetch"]
            /\ UNCHANGED <<semaphore, sem_waiters>>
    /\ UNCHANGED <<clientvars, call, result, sweep, devices, net>>

\* fetch_device_info up to its check of the control port (lines 46-67)
DescriptionFetched(i) ==
    /\ probe[i] = "fetch"
    /\ CASE net[i] \in {"no_control", "fan"} ->
              /\ probe' = [probe EXCEPT ![i] = "port"]
              /\ UNCHANGED <<semaphore, sem_waiters>>
         [] net[i] = "undecodable" -> Leaves(i, "failed")
         [] OTHER -> Leaves(i, "done")
    /\ UNCHANGED <<clientvars, call, result, sweep, devices, net>>

\* _check_port(host, DEFAULT_PORT) is over: lines 66-82 and 111-113
ControlPortChecked(i) ==
    /\ probe[i] = "port"
    /\ devices' = IF net[i] = "fan" THEN Append(devices, i) ELSE devices
    /\ Leaves(i, "done")
    /\ UNCHANGED <<clientvars, call, result, sweep, net>>

ProbeStep(i) ==
    \/ ProbeStarts(i)
    \/ ProbeResumes(i)
    \/ PortChecked(i)
    \/ DescriptionFetched(i)
    \/ ControlPortChecked(i)

\* gather (line 116) is done when every probe returned: line 120
DiscoverReturns ==
    /\ sweep = "gathering"
    /\ \A i \in Hosts : probe[i] = "done"
    /\ sweep' = "returned"
    /\ UNCHANGED <<clientvars, call, result, probe, semaphore, sem_waiters,
                   devices, net>>

\* gather hands the first exception of a probe to discover_devices and
\* leaves the other probes running
DiscoverRaises ==
    /\ sweep = "gathering"
    /\ \E i \in Hosts : probe[i] = "failed"
    /\ sweep' = "raised"
    /\ UNCHANGED <<clientvars, call, result, probe, semaphore, sem_waiters,
                   devices, net>>

DiscoveryInit ==
    /\ ClientInit
    /\ call = NoCall
    /\ result = NoCall
    /\ DiscoveryIdle
    /\ net \in [Hosts -> HostKinds]

DiscoveryNext ==
    \/ DiscoverCalled
    \/ \E i \in Hosts : ProbeStep(i)
    \/ DiscoverReturns
    \/ DiscoverRaises

DiscoverySpec == DiscoveryInit /\ [][DiscoveryNext]_vars

\* The event loop runs every task that is ready, and every network call of a
\* probe ends (by its result or by DISCOVERY_TIMEOUT).
FairDiscoverySpec ==
    /\ DiscoverySpec
    /\ WF_vars(DiscoverCalled)
    /\ \A i \in Hosts : WF_vars(ProbeStep(i))
    /\ WF_vars(DiscoverReturns)
    /\ WF_vars(DiscoverRaises)

\* ================================================================= claims
Listeners == {t \in Tasks : op[t] = "listen"}

\* reconnect tasks sleeping in their backoff wait or attempting connect()
PendingReconnects ==
    {t \in Tasks : op[t] = "reconnect" /\ pc[t] \in {"r_sleep", "c_lock", "c_open"}}

\* some task is created by this step and stored in _reconnect_task
ReconnectScheduled ==
    \E r \in Tasks : pc[r] = "free" /\ pc'[r] = "r_start" /\ reconnect_task' = r

\* C1: once disconnect() has completed and the callers call nothing but
\* disconnect() afterwards, the link is Disconnected in every later state.
C1_StaysDisconnected == quiet => ~connected

\* C2: at most one receive-loop task is alive in every reachable state.
C2_OneReceiveLoop == Cardinality(Listeners) <= 1

\* C3: at most one reconnect task is pending (sleeping in backoff or
\* attempting connect) in every reachable state.
C3_OneReconnectPending == Cardinality(PendingReconnects) <= 1

\* the n-th wait (n = 0, 1, ...) of the sequence 1, 2, 4, 8, 16, 32, 60, 60, ...
RECURSIVE ExpectedWait(_)
ExpectedWait(n) ==
    IF n = 0 THEN 1
    ELSE IF 2 * ExpectedWait(n - 1) > 60 THEN 60 ELSE 2 * ExpectedWait(n - 1)

\* C4: the stored delay lies in [1, 60], and, counting from the end of the
\* last Connected period, the n-th backoff wait a reconnect task begins
\* (when it is the only reconnect task) is the n-th element of
\* 1, 2, 4, 8, 16, 32, 60, 60, ...
C4_BackoffSequence ==
    [][/\ reconnect_delay' \in 1..60
       /\ \A t \in Tasks :
            (/\ pc[t] = "r_start" /\ pc'[t] = "r_sleep"
             /\ \A u \in Tasks \ {t} : op[u] # "reconnect")
            => reconnect_delay = ExpectedWait(nwaits)]_vars

\* the stored state shows every field of the command p
Reflects(st, p) ==
    /\ p.fan_power # Absent => st.fan_power = (p.fan_power = "ON")
    /\ p.light_power # Absent => st.light_power = (p.light_power = "ON")
    /\ p.percentage \in 0..100 => st.brightness = p.percentage
    /\ p.colorTemperature >= 0 => st.color_temp = 9200 - p.colorTemperature

\* C5: when send_command returns success, DeviceState shows the command at
\* the moment of the return: the powers equal (value = "ON"), brightness is
\* the sent percentage, color_temp the inversion of the sent colorTemperature.
C5_OptimisticUpdate ==
    [][\A c \in Callers :
          (pc[c] = "s_settle" /\ pc'[c] = "idle" /\ ret'.ok)
          => Reflects(state', arg[c])]_vars

C5_Witness ==
    /\ ret = [of |-> "send", ok |-> TRUE]
    /\ state.fan_power /\ state.light_power
    /\ state.brightness = 40 /\ state.color_temp = 6500

\* st2 is st with the whole object p applied: every field p carries with a
\* usable value is stored, every other field is as before
WholeObject(st, st2, p) ==
    /\ Reflects(st2, p)
    /\ p.fan_power = Absent => st2.fan_power = st.fan_power
    /\ p.light_power = Absent => st2.light_power = st.light_power
    /\ p.percentage \notin 0..100 => st2.brightness = st.brightness
    /\ p.colorTemperature < 0 => st2.color_temp = st.color_temp
    /\ st2.volume = st.volume

C7_MutatedUnderLock == [][state' # state => lock # None]_vars

\* C8: when the read of a receive loop returns empty, the link is marked
\* Disconnected, the loop exits, and a reconnect task is scheduled iff no
\* disconnect() has been requested.
C8_PeerClosed ==
    [][\A t \in Tasks :
          ListenEmpty(t) =>
             /\ ~connected'
             /\ op'[t] # "listen"
             /\ ReconnectScheduled <=> should_reconnect]_vars

C8_Witness ==
    /\ conn = "lost" /\ ~connected
    /\ listener_task = DoneTask
    /\ reconnect_task \in Tasks /\ pc[reconnect_task] = "r_start"

\* the write or flush of a command frame of caller c fails in this step
WriteFails(c) ==
    /\ op[c] = "send"
    /\ pc[c] \in {"s_drain", "s_lock"}
    /\ pc'[c] = "idle"

\* C9 as stated: a failed write or flush makes send_command return failure,
\* marks the link Disconnected, schedules a reconnect and applies no
\* optimistic update.
C9_WriteFailure ==
    [][\A c \in Callers :
          WriteFails(c) =>
             /\ ~ret'.ok /\ ~connected' /\ ReconnectScheduled
             /\ state' = state /\ notified' = 0]_vars

\* C9 amended: the reconnect is scheduled iff disconnect() was never called.
C9_WriteFailureAmended ==
    [][\A c \in Callers :
          WriteFails(c) =>
             /\ ~ret'.ok /\ ~connected'
             /\ ReconnectScheduled <=> should_reconnect
             /\ state' = state /\ notified' = 0]_vars

\* the send failed before the receive loop noticed the lost connection
C9_Witness ==
    /\ ret = [of |-> "send", ok |-> FALSE]
    /\ conn = "lost" /\ ~connected
    /\ listener_task \in Tasks /\ pc[listener_task] = "l_read"
    /\ reconnect_task \in Tasks /\ pc[reconnect_task] = "r_start"

\* C10: send_command on a Disconnected link calls connect() first and writes
\* nothing while it does; when that connect fails it returns failure with
\* DeviceState unchanged and no frame written.
C10_SendNeedsConnect ==
    [][\A c \in Callers :
          /\ (pc[c] = "idle" /\ op'[c] = "send" /\ ~connected)
                => (pc'[c] \in {"c_lock", "c_open"} /\ wire' = NoFrame)
          /\ (op[c] = "send" /\ pc[c] = "c_lock" /\ pc'[c] = "c_open")
                => wire' = NoFrame
          /\ (op[c] = "send" /\ pc[c] = "c_open" /\ pc'[c] # "c_open" /\ ~connected')
                => /\ pc'[c] = "idle"
                   /\ ret' = [of |-> "send", ok |-> FALSE]
                   /\ wire' = NoFrame
                   /\ state' = state]_vars

\* a send on a link that never had a connection returned failure: its
\* connect() failed
C10_Witness ==
    /\ ret = [of |-> "send", ok |-> FALSE]
    /\ ~connected /\ writer = None /\ should_reconnect
    /\ wire = NoFrame

\* process p enters the lock block of connect() in this step with the link
\* Connected: at once from its call, or after waiting for the lock
ConnectsWhileConnected(p) ==
    /\ connected
    /\ \/ p \in Callers /\ CallConnect(p) /\ lock = None /\ waiters = <<>>
       \/ pc[p] = "c_lock" /\ LockGranted(p)

\* C11: connect() on a Connected link returns success and changes nothing:
\* no connection is opened, no receive loop started, the reader and writer
\* stay, also when the call had to wait for the lock behind another connect.
C11_ConnectNoop ==
    [][\A p \in Procs :
          ConnectsWhileConnected(p) =>
             /\ pc'[p] # "c_open"
             /\ op[p] \in {"connect", "none"} => ret' = [of |-> "connect", ok |-> TRUE]
             /\ connected' /\ reader' = reader /\ writer' = writer /\ conn' = conn
             /\ listener_task' = listener_task /\ Listeners' = Listeners
             /\ reconnect_task' = reconnect_task
             /\ reconnect_delay' = reconnect_delay /\ state' = state]_vars

\* a connect() returned success in the step before, when the receive loop of
\* the connection was already reading
C11_Witness ==
    /\ ret = [of |-> "connect", ok |-> TRUE]
    /\ connected /\ listener_task \in Tasks /\ pc[listener_task] = "l_read"

\* C12: a caller's connect() that fails returns failure, leaves the link
\* Disconnected, starts no receive loop, creates no reconnect task and leaves
\* the reconnect delay as it was.
C12_ConnectFailure ==
    [][\A c \in Callers :
          (op[c] = "connect" /\ ConnectRefused(c)) =>
             /\ ret' = [of |-> "connect", ok |-> FALSE]
             /\ ~connected'
             /\ Listeners' = Listeners /\ listener_task' = listener_task
             /\ ~ReconnectScheduled /\ reconnect_task' = reconnect_task
             /\ \A t \in Tasks : pc[t] = "free" => pc'[t] = "free"
             /\ reconnect_delay' = reconnect_delay]_vars

\* a connect() on a link that never had a connection returned failure
C12_Witness ==
    /\ ret = [of |-> "connect", ok |-> FALSE]
    /\ ~connected /\ should_reconnect
    /\ listener_task = None /\ reconnect_task = None

\* the update object d carries no fan_power, light_power or colorTemperature
\* that differs from what st stores
OthersSame(st, d) ==
    /\ d.fan_power # Absent => st.fan_power = (d.fan_power = "ON")
    /\ d.light_power # Absent => st.light_power = (d.light_power = "ON")
    /\ d.colorTemperature # AbsentN =>
          (d.colorTemperature >= 0 /\ st.color_temp = 9200 - d.colorTemperature)

\* C13: an update whose percentage is 255 or more leaves brightness as it
\* was, and when no other field of it differs from the stored state the
\* state is unchanged and no listener is called.
C13_SentinelIgnored ==
    (call.f = "update" /\ result # NoCall /\ call.parsed.percentage >= 255) =>
        /\ result.state.brightness = call.st.brightness
        /\ OthersSame(call.st, call.parsed) =>
              (result.state = call.st /\ result.invoked = <<>>)

\* an update of percentage 255 alone was applied with listeners registered
C13_Witness ==
    /\ call.f = "update" /\ result # NoCall
    /\ call.parsed = Payload(Absent, Absent, 255, AbsentN)
    /\ call.callbacks = <<"returns", "returns">>
    /\ result.state = call.st /\ result.invoked = <<>>

\* the ranges DeviceState is specified to keep
StateInRange(st) ==
    /\ st.fan_power \in BOOLEAN /\ st.light_power \in BOOLEAN
    /\ st.brightness \in 0..100
    /\ st.color_temp \in 2200..7000
    /\ st.volume \in 0..100

\* C14: after a received update, a sent command or a volume operation on a
\* DeviceState within its ranges, DeviceState is within its ranges:
\* brightness in 0..100, color_temp in 2200..7000, volume in 0..100, the
\* powers booleans.
C14_StateInRange ==
    (result # NoCall /\ result.f \in {"update", "get_volume", "set_volume"}
        /\ StateInRange(call.st))
    => StateInRange(result.state)

\* every listener of the list cbs, once each, in the order of the list
EachOnce(cbs) == [i \in 1..Len(cbs) |-> i]

\* C15: an update that leaves every stored value as it was calls no
\* listener, and an update that changes a stored value calls each registered
\* listener exactly once.
C15_NotifiedOnChange ==
    (call.f = "update" /\ result # NoCall) =>
        /\ result.state = call.st => result.invoked = <<>>
        /\ result.state # call.st => result.invoked = EachOnce(call.callbacks)

\* C16: a notification calls every registered listener in registration
\* order whether or not one of them raises, and no listener's error leaves
\* the notification or the update or volume operation that made it.
C16_ListenerErrorsContained ==
    /\ (call.f = "notify" /\ result # NoCall) =>
          (result.invoked = EachOnce(call.callbacks) /\ ~result.raised)
    /\ (call.f \in {"update", "get_volume", "set_volume"} /\ result # NoCall
           /\ result.invoked # <<>>) =>
          (result.invoked = EachOnce(call.callbacks) /\ ~result.raised)

\* an update changed the state with a raising listener registered first
C16_Witness ==
    /\ call.f = "update" /\ result # NoCall
    /\ call.callbacks = <<"raises", "returns">>
    /\ result.state # call.st
    /\ result.invoked = <<1, 2>> /\ ~result.raised

\* C17: no received data ends the connection: after the only receive loop
\* of a Connected link has read data, whatever it decodes to, the link is
\* Connected, the loop is reading again and no reconnect was scheduled.
C17_ReceivedDataNeverFatal ==
    [][\A t \in Tasks :
          (ListenData(t) /\ connected /\ reader # None /\ Listeners = {t}) =>
             /\ connected'
             /\ op'[t] = "listen" /\ pc'[t] = "l_read"
             /\ ~ReconnectScheduled]_vars

\* C18: the concatenation of n frames built from command payloads, n = 0, 1,
\* 2, ..., decodes to exactly those n payloads in the order of the frames.
C18_FramesRoundTrip ==
    (call.f = "frames" /\ result # NoCall) =>
        (result.objs = call.sent /\ ~result.raised)

\* two different frames in one buffer were decoded
C18_Witness ==
    /\ call.f = "frames" /\ result # NoCall
    /\ Len(call.sent) = 2 /\ call.sent[1] # call.sent[2]
    /\ Len(result.data) = 8
    /\ result.objs = call.sent

\* the objects of a buffer as C19 describes them, scanning from position i:
\* a prefix with no suffix after it ends the scan; the slice between a
\* prefix and the next suffix gives its object when it is the JSON text of
\* one, and nothing otherwise; the scan resumes right after that suffix
RECURSIVE Decodable(_, _)
Decodable(data, i) ==
    LET pres == {j \in i..Len(data) : data[j].k = "pre"}
        p == CHOOSE j \in pres : \A n \in pres : j <= n
        sufs == {j \in (p + 1)..Len(data) : data[j].k = "suf"}
        e == CHOOSE j \in sufs : \A n \in sufs : j <= n
    IN IF pres = {} THEN <<>>
       ELSE IF sufs = {} THEN <<>>
       ELSE (IF e = p + 2 /\ data[p + 1].k = "json"
             THEN <<data[p + 1].obj>> ELSE <<>>) \o Decodable(data, e + 1)

\* C19: decoding a buffer never throws and returns exactly the decodable
\* frames in order: trailing garbage after a prefix ends the scan, and an
\* undecodable slice is skipped with the frames after it still returned.
C19_DecodeNeverThrows ==
    (call.f = "parse" /\ result # NoCall) =>
        (~result.raised /\ result.objs = Decodable(call.data, 1))

\* the supported values in the order the specification lists them
ListedOrder == <<7000, 5500, 2700, 2200>>

\* the device-scale target of a standard-Kelvin k: clamped, then inverted
DeviceTarget(k) ==
    9200 - (IF k < 2200 THEN 2200 ELSE IF k > 7000 THEN 7000 ELSE k)

\* C20: set_color_temperature(k) sends a colorTemperature that is one of
\* 7000, 5500, 2700, 2200, nearest by absolute difference to the inversion
\* of k clamped to [2200, 7000], and among equally near values the one
\* listed first.
C20_SnapNearest ==
    (call.f = "set_color_temperature" /\ result # NoCall) =>
        \E i \in 1..4 :
            /\ result.command = Payload("absent", "absent", -2, ListedOrder[i])
            /\ \A j \in 1..4 :
                  LET di == ListedOrder[i] - DeviceTarget(call.k)
                      dj == ListedOrder[j] - DeviceTarget(call.k)
                  IN /\ di * di <= dj * dj
                     /\ di * di = dj * dj => i <= j

\* the target 5100 is device-scale 4100, as far from 5500 as from 2700
C20_Witness ==
    /\ call.f = "set_color_temperature" /\ call.k = 5100
    /\ result # NoCall /\ result.command.colorTemperature = 5500

\* C21: inverting a colour temperature of 2200..7000 gives 2200 + 7000 minus
\* it, which lies in 2200..7000 again, and inverting that gives the
\* temperature back.
C21_InvertSelfInverse ==
    (result.f = "invert" /\ call.x >= 2200 /\ call.x <= 7000) =>
        /\ result.once = 2200 + 7000 - call.x
        /\ result.once >= 2200 /\ result.once <= 7000
        /\ result.twice = call.x

C21_Witness ==
    /\ result.f = "invert"
    /\ call.x = 2200
    /\ result.once = 7000
    /\ result.twice = 2200

\* the steps request_state() takes for p: the call, and each resumption of
\* it (in connect(), at the lock, at the drain); the reconnect task runs the
\* same code from the lock on
RequestStep(p) ==
    \/ p \in Callers /\ CallRequest(p)
    \/ /\ op[p] = "request"
       /\ ConnectOpened(p) \/ ConnectRefused(p)
    \/ /\ op[p] = "request" \/ pc[p] \in {"q_lock", "q_drain"}
       /\ LockGranted(p) \/ RequestDrained(p) \/ RequestBroken(p)

\* C22: request_state() writes the frame {fan_power: "", light_power: ""}
\* and nothing else, and no step of it changes DeviceState or notifies a
\* listener, whether the write succeeds or fails.
C22_RequestNoUpdate ==
    [][\A p \in Procs : RequestStep(p) =>
          /\ state' = state
          /\ notified' = 0
          /\ wire' \in {NoFrame, StateQuery}
          /\ (pc'[p] = "q_drain") => wire' = StateQuery
          /\ StateQuery.fan_power = "" /\ StateQuery.light_power = ""
          /\ StateQuery.percentage = AbsentN /\ StateQuery.colorTemperature = AbsentN]_vars

C22_Witness ==
    /\ ret = [of |-> "request", ok |-> TRUE]
    /\ state.fan_power /\ state.light_power
    /\ notified = 0

GoodHosts == {i \in Hosts : net[i] = "fan"}

\* C23: discover_devices(prefix) returns, and what it returns has exactly one
\* DiscoveredDevice for each host whose description port and control port
\* accept a connection and whose description names the expected
\* manufacturer, and nothing for any other host.
C23_DiscoverExactly ==
    /\ sweep # "raised"
    /\ sweep = "returned" =>
          /\ {devices[k] : k \in DOMAIN devices} = GoodHosts
          /\ Len(devices) = Cardinality(GoodHosts)

\* C24: at most DISCOVERY_CONCURRENCY probes are in a network call at a
\* time, and each probe of a sweep comes to hold a permit of the semaphore
\* and then ends with the permit given back.
C24_BoundedProbes ==
    /\ [](Cardinality(InFlight) <= DISCOVERY_CONCURRENCY)
    /\ [](semaphore + Cardinality(Holding) = IF sweep = "idle" THEN 0 ELSE DISCOVERY_CONCURRENCY)
    /\ \A i \in Hosts :
          /\ (sweep # "idle" /\ probe[i] \in {"new", "sem_wait"}) ~> (i \in Holding)
          /\ (i \in Holding) ~> (probe[i] \in {"done", "failed"})
    /\ (sweep = "gathering") ~>
          [](Holding = {} /\ sem_waiters = <<>> /\ semaphore = DISCOVERY_CONCURRENCY)

\* the last probe had to wait, one probe ended by an exception, and all
\* permits are back
C24_Witness ==
    /\ sweep = "raised"
    /\ \E i \in Hosts : probe[i] = "failed"
    /\ probe[NumHosts] = "done"
    /\ Holding = {} /\ sem_waiters = <<>>
    /\ semaphore = DISCOVERY_CONCURRENCY

\* C25: set_volume(v) sends v clamped to 0..100 and raises nothing; with a
\* response it returns true, stores the clamped value and calls the
\* listeners exactly when the stored value changed; when the transport
\* failed it returns false and leaves DeviceState as it was, calling nobody.
C25_SetVolume ==
    (result.f = "set_volume") =>
        LET v == IF call.volume < 0 THEN 0
                 ELSE IF call.volume > 100 THEN 100 ELSE call.volume
        IN /\ result.sent = v
           /\ ~result.raised
           /\ call.response = "text" =>
                 /\ result.returned
                 /\ result.state = [call.st EXCEPT !.volume = v]
                 /\ result.invoked = IF call.st.volume # v
                                     THEN EachOnce(call.callbacks) ELSE <<>>
           /\ call.response = "failed" =>
                 /\ ~result.returned
                 /\ result.state = call.st
                 /\ result.invoked = <<>>

\* a volume above the range was set with listeners registered
C25_Witness ==
    /\ result.f = "set_volume"
    /\ call.volume = 150 /\ call.response = "text"
    /\ result.sent = 100 /\ result.state.volume = 100 /\ call.st.volume = 50
    /\ result.returned
    /\ result.invoked = <<1, 2>>

\* C26: when disconnect() is invoked, a receive loop blocked in its read and
\* a reconnect task in its backoff sleep are cancelled at once, a
\* send_command in its settle wait is taken out of that wait, and the
\* cancellation of a task is not handled as a connection error: it leaves
\* the connection flag, the state and the wire alone and schedules no
\* reconnect.
C26_DisconnectInterrupts ==
    [][/\ \A d \in Callers : CallDisconnect(d) =>
             /\ \A t \in Tasks : pc[t] \in {"l_read", "r_sleep"} =>
                   (t \in cancelling' \/ pc'[t] = "free")
             /\ \A c \in Callers : pc[c] = "s_settle" => pc'[c] # "s_settle"
       /\ \A t \in Tasks : TaskCancelled(t) =>
             /\ connected' = connected
             /\ state' = state /\ notified' = 0 /\ wire' = NoFrame
             /\ PendingReconnects' \subseteq PendingReconnects
             /\ ret'.of \in {"none", "disconnect"} /\ (ret'.of = "disconnect" => ret'.ok)]_vars

\* C27: the receive loop writes the keepalive frame {fan_power: ""} at its
\* third consecutive timeout and at no other step; a read that returns data
\* and a keepalive that was written put the count back to 0; when the
\* keepalive cannot be written the link is marked Disconnected, the loop
\* ends, and a reconnect is scheduled exactly if auto-reconnect is enabled.
C27_Keepalive ==
    [][/\ (wire' = KeepaliveQuery) =>
             \E t \in Tasks : ListenTimeout(t) /\ cto[t] = 2 /\ writer # None
       /\ KeepaliveQuery = Payload("", Absent, AbsentN, AbsentN)
       /\ \A t \in Tasks :
             /\ cto[t] <= 3 /\ (cto[t] = 3 => pc[t] = "l_drain")
             /\ (ListenTimeout(t) /\ cto[t] < 2) =>
                   /\ wire' = NoFrame
                   /\ op'[t] = "listen" => (cto'[t] = cto[t] + 1 /\ pc'[t] = "l_read")
             /\ (ListenTimeout(t) /\ cto[t] = 2 /\ writer # None) =>
                   (wire' = KeepaliveQuery /\ pc'[t] = "l_drain")
             /\ (ListenData(t) \/ KeepaliveDrained(t)) =>
                   (op'[t] = "listen" => cto'[t] = 0)
             /\ (KeepaliveBroken(t) \/ (ListenTimeout(t) /\ cto[t] = 2 /\ writer = None)) =>
                   /\ ~connected'
                   /\ op'[t] # "listen"
                   /\ ReconnectScheduled <=> should_reconnect]_vars

C27_Witness ==
    \E t \in Tasks :
        /\ op[t] = "listen" /\ pc[t] = "l_drain" /\ cto[t] = 3
        /\ wire = KeepaliveQuery
        /\ connected

\* a connection was established and the link is Disconnected
Lost == ~connected /\ listener_task # None

\* reconnect tasks that have not finished their connect()
ReconnectsAhead ==
    {t \in Tasks : op[t] = "reconnect"
                   /\ pc[t] \in {"r_start", "r_sleep", "c_lock", "c_open"}}

\* C28: with auto-reconnect enabled, whenever the link is Disconnected after
\* a connection was lost a reconnect task is still ahead of its connect();
\* a reconnect task whose connect() fails schedules the next one, and one
\* whose connect() returns true goes on to the state query; and if from
\* some point on no connection attempt is refused, a lost link becomes
\* Connected again and the query {fan_power: "", light_power: ""} is written.
C28_Reconnects ==
    /\ []((should_reconnect /\ Lost) => ReconnectsAhead # {})
    /\ [][\A t \in Tasks :
             /\ (op[t] = "reconnect" /\ ConnectRefused(t) /\ should_reconnect) =>
                   ReconnectScheduled
             /\ (op[t] = "reconnect" /\ (ConnectOpened(t) \/ LockGranted(t))
                   /\ pc[t] \in {"c_open", "c_lock"} /\ pc'[t] # "c_open") =>
                   /\ connected'
                   /\ pc'[t] \in {"q_lock", "q_drain"}
                   /\ pc'[t] = "q_drain" => wire' = StateQuery]_vars
    /\ (<>[][\A p \in Procs : ~ConnectRefused(p)]_vars) =>
          /\ (should_reconnect /\ Lost) ~> connected
          /\ (should_reconnect /\ Lost) ~> (wire = StateQuery)

\* a reconnect task has reconnected the link and written its query
C28_Witness ==
    \E t \in Tasks :
        /\ op[t] = "reconnect" /\ pc[t] = "q_drain"
        /\ wire = StateQuery
        /\ connected /\ conn = "open"

\* C29: a send_command whose payload carries the empty string for a
\* recognized key, written on a Connected link, returns success, leaves the
\* link Connected with no reconnect scheduled, and leaves the DeviceState
\* field of that key as it was.
C29_QueryKeepsState ==
    (result.f = "send_command" /\ call.data \in QueryPayloads) =>
        /\ result.returned
        /\ result.connected
        /\ result.reconnect_task = None
        /\ call.data.fan_power = "" => result.state.fan_power = call.st.fan_power
        /\ call.data.light_power = "" => result.state.light_power = call.st.light_power
        /\ call.data.percentage = EmptyN => result.state.brightness = call.st.brightness
        /\ call.data.colorTemperature = EmptyN =>
              result.state.color_temp = call.st.color_temp

\* C30: an operation that changes a value of DeviceState (an update applied
\* by the receive loop, the optimistic update of a sent command, get_volume,
\* set_volume) has called every registered listener by the time it ends,
\* also when a later field of the same object could not be applied.
C30_EveryChangeNotified ==
    /\ (result.f \in {"update", "get_volume", "set_volume"}
           /\ result.state # call.st) =>
          result.invoked = EachOnce(call.callbacks)
    /\ (result.f = "send_command" /\ result.state # call.st) =>
          result.notified = 1

\* C31: every complete frame the device sends is decoded and applied exactly
\* once however the stream is cut into reads: the objects applied from two
\* successive reads are the objects sent, in order, and the state they leave
\* is the state the same bytes leave when they arrive in one read.
C31_SplitFramesApplied ==
    (result.f = "stream") =>
        /\ result.whole_applied = call.sent
        /\ result.applied = call.sent
        /\ result.state = result.whole_state

\* C32: a value the receive loop applies for a field during the settle wait
\* of a send_command that carries the same field is the stored value when
\* the send has returned: the optimistic update does not overwrite it.
C32_ReportNotOverwritten ==
    (result.f = "settle") =>
        /\ (call.frame.fan_power # Absent /\ call.data.fan_power # Absent) =>
              result.state.fan_power = (call.frame.fan_power = "ON")
        /\ (call.frame.light_power # Absent /\ call.data.light_power # Absent) =>
              result.state.light_power = (call.frame.light_power = "ON")
        /\ (call.frame.percentage \in 0..100 /\ call.data.percentage # AbsentN) =>
              result.state.brightness = call.frame.percentage
        /\ (call.frame.colorTemperature >= 0 /\ call.data.colorTemperature # AbsentN) =>
              result.state.color_temp = 9200 - call.frame.colorTemperature

\* C33: the auto-reconnect flag is cleared by disconnect() and set by no
\* step; once it is cleared no step schedules a reconnect task; and when,
\* after a disconnect() and a later connection, the link is Disconnected
\* again with its callers idle, no step makes it Connected: only a call of
\* a caller leads there.
C33_NoReconnectAfterDisconnect ==
    [][/\ should_reconnect' => should_reconnect
       /\ \A c \in Callers : CallDisconnect(c) => ~should_reconnect'
       /\ ~should_reconnect => ~ReconnectScheduled
       /\ (/\ ~should_reconnect /\ reconnect_task = None
           /\ listener_task = DoneTask
           /\ \A c \in Callers : pc[c] = "idle"
           /\ ~connected) => ~connected']_vars

\* C34: whenever the link is Connected and no reconnect task is pending the
\* stored reconnect delay is 1, and the first backoff wait begun after a
\* Connected period ended lasts 1 second.
C34_DelayAtFloor ==
    /\ []((connected /\ PendingReconnects = {}) => reconnect_delay = 1)
    /\ [][\A t \in Tasks :
             (pc[t] = "r_start" /\ pc'[t] = "r_sleep" /\ nwaits = 0)
             => reconnect_delay = 1]_vars

\* C35: the link holds at most one open connection: when connect() opens a
\* connection, the connection its streams named before either never
\* existed or was closed by the link, and when disconnect() completes, the
\* current connection is closed and dropped and no task is left on an
\* earlier connection that was not closed.
C35_OneConnection ==
    [][/\ \A p \in Procs : ConnectOpened(p) => conn \in {"none", "closed"}
       /\ \A c \in Callers :
             (op[c] = "disconnect" /\ pc'[c] = "idle") =>
                /\ conn' = "none"
                /\ \A t \in Tasks : rd'[t] \notin {"open", "lost"}]_vars

\* the link is down: Disconnected, no tracked receive loop, no tracked
\* reconnect task, the writer closed and dropped
Down ==
    /\ ~connected
    /\ listener_task = None /\ reconnect_task = None
    /\ writer = None /\ reader = None /\ conn = "none"

DisconnectReturned == [of |-> "disconnect", ok |-> TRUE]

\* C36: a disconnect() that is under way completes, whatever state it was
\* invoked in; the step that completes it returns normally and leaves the
\* link down; and a disconnect() called on a link that is down leaves it
\* down with DeviceState as it was, at once when the lock is free.
C36_DisconnectCompletes ==
    /\ \A c \in Callers : (op[c] = "disconnect") ~> (op[c] = "none")
    /\ [][\A c \in Callers :
             /\ CallDisconnect(c) => (op'[c] = "disconnect" \/ ret' = DisconnectReturned)
             /\ (op[c] = "disconnect" /\ pc'[c] = "idle") => ret' = DisconnectReturned
             /\ (ret' = DisconnectReturned) => Down'
             /\ (CallDisconnect(c) /\ Down) =>
                   /\ Down' /\ state' = state /\ ~should_reconnect'
                   /\ (lock = None /\ waiters = <<>>) => ret' = DisconnectReturned]_vars

\* a disconnect() that had a connection to close has completed, after a
\* command was sent on that connection
C36_Witness ==
    /\ ret = DisconnectReturned
    /\ Down
    /\ state.fan_power
    /\ \A t \in Tasks : pc[t] = "free"
    /\ \A c \in Callers : pc[c] = "idle"

====
